---- MODULE Spec2Model ----
(***************************************************************************)
(* Model of the labeling app: the ratings ledger of src/database.py (one   *)
(* SQLite table `ratings`) and the rating interface / dashboard of         *)
(* src/app.py that read and write it.                                      *)
(*                                                                         *)
(* Representation.                                                         *)
(*  - A rating (SQL REAL, or INTEGER in the legacy table) is an integer    *)
(*    number of hundredths: 7.5 is 750, the legacy 75 is 7500, the skip    *)
(*    sentinel -1 is -100 and the flag sentinel -2 is -200.                *)
(*  - A user identifier is a sequence of one-character strings, so that    *)
(*    SQL LIKE and Python's `in` can be computed character by character.   *)
(*  - A timestamp is a natural number; datetime.now() is the local wall    *)
(*    clock, which may repeat a value or step back, so a save draws it     *)
(*    from Times.                                                          *)
(*  - uuid4() is a fresh identifier: the counter nextId.                   *)
(***************************************************************************)
EXTENDS Integers, Sequences, FiniteSets

VARIABLES
    schema,     \* the rating column type in sqlite_master's CREATE TABLE text
    ratings,    \* the rows of table `ratings`
    nextId,     \* the next uuid4() value
    ret,        \* the value returned by the last database call
    saved,      \* history: the <<user_identifier, image_id>> pairs ever passed to save_rating
    last,       \* history: the last operation, [op, arg, removed rows]
    catalog,    \* the image files in IMAGE_DIR
    session,    \* st.session_state of each browser session
    page,       \* what the last script run of each browser session rendered
    calls       \* the database calls in progress of the concurrent callers

apiVars == <<schema, ratings, nextId, ret, saved, last>>

appVars == <<catalog, session, page, calls>>

vars == <<schema, ratings, nextId, ret, saved, last, catalog, session, page, calls>>

----------------------------------------------------------------------------
(* Bounds and input domains *)

MaxEvents == 2

Ids == 1..MaxEvents

Images == {"a.png", "b.png"}

Times == {1, 2}

SKIP == -100

FLAG == -200

\* the slider of the rating interface: 1.0 .. 10.0 in steps of 0.1
SliderValues == {v \in 100..1000 : v % 10 = 0}

\* the ratings a save draws from: one slider value and the two sentinels
Ratings == {750, SKIP, FLAG}

\* "ab", "Ab", "_"
Users == {<<"a", "b">>, <<"A", "b">>, <<"_">>}

\* "", "B", "_", "%", "Ab", "a_", "x"
Patterns == {<<>>, <<"B">>, <<"_">>, <<"%">>, <<"A", "b">>, <<"a", "_">>, <<"x">>}

None == "None"

\* arg: the participant of an undo, the schema an init_db found
Call(op, arg, removed) == [op |-> op, arg |-> arg, removed |-> removed]

----------------------------------------------------------------------------
(* Rows *)

Row(id, image_id, rating, user_identifier, timestamp) ==
    [id |-> id, image_id |-> image_id, rating |-> rating,
     user_identifier |-> user_identifier, timestamp |-> timestamp]

RowIds(T) == {r.id : r \in T}

\* variant: only the valid ratings count as rated
get_rated_images_valid_only(T, user_identifier) ==
    [r \in {x \in T : x.user_identifier = user_identifier /\ x.rating > 0} |-> r.image_id]

\* variant: the events of every participant count as rated
get_rated_images_any_user(T, user_identifier) == [r \in T |-> r.image_id]

\* SELECT image_id FROM ratings WHERE user_identifier = :user_identifier
\* The returned list has one entry per matching row (duplicates are kept);
\* it is modelled as the function from the matching rows to their image_id.
get_rated_images(T, user_identifier) ==
    [r \in {x \in T : x.user_identifier = user_identifier} |-> r.image_id]

\* the values of a list
Elems(list) == {list[k] : k \in DOMAIN list}

\* len(list)
Length(list) == Cardinality(DOMAIN list)

----------------------------------------------------------------------------
(* init_db and the scale migration *)

\* ROUND(rating / 10.0, 1) on hundredths: h/10 rounded to a multiple of 0.1
RoundTenth(h) == 10 * ((h + 50) \div 100)

\* variant: the sentinels are divided as well
migrate_rating_all(rating) == RoundTenth(rating)

\* CASE WHEN rating > 0 THEN ROUND(rating / 10.0, 1) ELSE rating END
migrate_rating(rating) == IF rating > 0 THEN RoundTenth(rating) ELSE rating

\* INSERT INTO ratings_new SELECT ... FROM ratings; DROP; RENAME
migrate_ratings_scale(T) ==
    {Row(r.id, r.image_id, migrate_rating(r.rating), r.user_identifier, r.timestamp) : r \in T}

\* variant: migrate whenever the table exists
NeedsMigration_always(sch) == sch # "none"

\* `result and 'INTEGER' in result[0]`
NeedsMigration(sch) == sch = "INTEGER"

\* init_db as a function of the database [schema, rows]
init_db(db) ==
    IF NeedsMigration(db.schema)
    THEN [schema |-> "REAL", rows |-> migrate_ratings_scale(db.rows)]
    ELSE [schema |-> "REAL", rows |-> db.rows]

Database == [schema |-> schema, rows |-> ratings]

InitDb ==
    /\ schema' = init_db(Database).schema
    /\ ratings' = init_db(Database).rows
    /\ ret' = None
    /\ last' = Call("init_db", schema, {})
    /\ UNCHANGED <<nextId, saved>>
    /\ UNCHANGED appVars

----------------------------------------------------------------------------
(* save_rating *)

save_rating(T, id, image_id, rating, user_identifier, now) ==
    T \cup {Row(id, image_id, rating, user_identifier, now)}

SaveRating(image_id, rating, user_identifier, now) ==
    /\ schema = "REAL"
    /\ nextId \in Ids
    /\ ratings' = save_rating(ratings, nextId, image_id, rating, user_identifier, now)
    /\ nextId' = nextId + 1
    /\ ret' = None
    /\ saved' = saved \cup {<<user_identifier, image_id>>}
    /\ last' = Call("save_rating", None, {})
    /\ UNCHANGED schema
    /\ UNCHANGED appVars

----------------------------------------------------------------------------
(* undo_last_rating *)

\* variant: ORDER BY timestamp ASC
LastRatings_oldest(T, user_identifier) ==
    {r \in T : /\ r.user_identifier = user_identifier
               /\ \A x \in T : x.user_identifier = user_identifier => x.timestamp >= r.timestamp}

\* SELECT id, image_id, rating ... WHERE user_identifier = :u ORDER BY timestamp DESC LIMIT 1
\* The rows the query may return: SQLite leaves the order of rows with equal
\* timestamps undefined, so any row of maximal timestamp may come first.
LastRatings(T, user_identifier) ==
    {r \in T : /\ r.user_identifier = user_identifier
               /\ \A x \in T : x.user_identifier = user_identifier => x.timestamp <= r.timestamp}

\* DELETE FROM ratings WHERE id = :rating_id
DeleteById(T, id) == {r \in T : r.id # id}

UndoLastRating(user_identifier) ==
    /\ schema = "REAL"
    /\ IF LastRatings(ratings, user_identifier) # {}
       THEN \E last_rating \in LastRatings(ratings, user_identifier) :
              /\ ratings' = DeleteById(ratings, last_rating.id)
              /\ ret' = <<last_rating.image_id, last_rating.rating>>
       ELSE /\ ratings' = ratings
            /\ ret' = <<None, None>>
    /\ last' = Call("undo_last_rating", user_identifier, ratings \ ratings')
    /\ UNCHANGED <<schema, nextId, saved>>
    /\ UNCHANGED appVars

----------------------------------------------------------------------------
(* cleanup_test_users *)

\* SQLite's LIKE folds the case of ASCII letters only
LikeFold(c) == IF c = "A" THEN "a" ELSE IF c = "B" THEN "b" ELSE c

Tail2(s) == SubSeq(s, 2, Len(s))

\* s LIKE p: % matches any run of characters, _ any one character
RECURSIVE Like(_, _)
Like(s, p) ==
    IF p = <<>> THEN s = <<>>
    ELSE IF Head(p) = "%"
         THEN Like(s, Tail2(p)) \/ (s # <<>> /\ Like(Tail2(s), p))
    ELSE IF Head(p) = "_"
         THEN s # <<>> /\ Like(Tail2(s), Tail2(p))
    ELSE s # <<>> /\ LikeFold(Head(s)) = LikeFold(Head(p)) /\ Like(Tail2(s), Tail2(p))

\* params=dict(pattern=f"%{pattern}%")
LikeParam(pattern) == <<"%">> \o pattern \o <<"%">>

\* the WHERE clause of both statements of one branch
CleanupMatches(user_identifier, pattern, exact_match) ==
    IF exact_match
    THEN user_identifier = pattern
    ELSE Like(user_identifier, LikeParam(pattern))

\* SELECT DISTINCT user_identifier FROM ratings WHERE ...
users_to_delete(T, pattern, exact_match) ==
    {r.user_identifier : r \in {x \in T : CleanupMatches(x.user_identifier, pattern, exact_match)}}

\* DELETE FROM ratings WHERE ...
CleanupDelete(T, pattern, exact_match) ==
    {r \in T : ~CleanupMatches(r.user_identifier, pattern, exact_match)}

CleanupTestUsers(pattern, exact_match) ==
    /\ schema = "REAL"
    /\ IF users_to_delete(ratings, pattern, exact_match) # {}
       THEN /\ ratings' = CleanupDelete(ratings, pattern, exact_match)
            /\ ret' = <<Cardinality(users_to_delete(ratings, pattern, exact_match)),
                        Cardinality(ratings) - Cardinality(ratings')>>
       ELSE /\ ratings' = ratings
            /\ ret' = <<0, 0>>
    /\ last' = Call("cleanup_test_users", None, {})
    /\ UNCHANGED <<schema, nextId, saved>>
    /\ UNCHANGED appVars

----------------------------------------------------------------------------
(* The ledger under sequential callers *)

Sessions == {"s1", "s2"}

\* no browser session has run the script yet
NoSession == [s \in Sessions |-> [user_identifier |-> None, current_image |-> None]]

\* a page: its kind, the image it presents, and for the dashboard the local
\* variables image_stats and df_images of dashboard_page
Page(kind, image, image_stats, df_images) ==
    [kind |-> kind, image |-> image, image_stats |-> image_stats, df_images |-> df_images]

NoPage == [s \in Sessions |-> Page("none", None, {}, {})]

AppIdle ==
    /\ catalog = {}
    /\ session = NoSession
    /\ page = NoPage
    /\ calls = <<>>

Init ==
    /\ AppIdle
    /\ schema = "none"
    /\ ratings = {}
    /\ nextId = 1
    /\ ret = None
    /\ saved = {}
    /\ last = Call(None, None, {})

Save == \E image_id \in Images, rating \in Ratings, user_identifier \in Users, now \in Times :
            SaveRating(image_id, rating, user_identifier, now)

Undo == \E user_identifier \in Users : UndoLastRating(user_identifier)

Cleanup == \E pattern \in Patterns, exact_match \in BOOLEAN :
               CleanupTestUsers(pattern, exact_match)

Next == InitDb \/ Save \/ Undo \/ Cleanup

Spec == Init /\ [][Next]_vars

----------------------------------------------------------------------------
(* C1 *)

\* no row has been removed yet: every identifier handed out is still in the table
OnlySaves == RowIds(ratings) = 1..(nextId - 1)

SavedImages(user_identifier) == {s[2] : s \in {x \in saved : x[1] = user_identifier}}

\* C1: after any sequence of save_rating calls, for every participant p the set
\* of image ids returned by get_rated_images(p) is exactly the set of image ids
\* ever saved with p, whatever the rating values (positive, -1 or -2).
C1_RatedImagesAreTheSavedImages ==
    OnlySaves =>
        \A p \in Users : Elems(get_rated_images(ratings, p)) = SavedImages(p)

\* two participants have saved different images, one of them with a sentinel
C1_Witness ==
    /\ OnlySaves
    /\ \E r1, r2 \in ratings :
          /\ r1.user_identifier # r2.user_identifier
          /\ r1.image_id # r2.image_id
          /\ r1.rating \in {SKIP, FLAG}
          /\ r2.rating > 0
          /\ Elems(get_rated_images(ratings, r1.user_identifier)) = {r1.image_id}

----------------------------------------------------------------------------
(* C2 *)

RowsOf(T, user_identifier) == {r \in T : r.user_identifier = user_identifier}

\* C2: for a participant p with at least one event, undo_last_rating(p) removes
\* exactly one row, an event of p of maximal timestamp among p's events (also
\* under ties), returns its (image_id, rating), takes its image out of
\* get_rated_images(p) unless another event of p for that image remains, and
\* leaves the events of the other participants untouched.
C2_UndoRemovesOneLatestEvent ==
    [][\A p \in Users :
         (/\ last'.op = "undo_last_rating"
          /\ UndoLastRating(p)
          /\ RowsOf(ratings, p) # {}) =>
            \E e \in RowsOf(ratings, p) :
               /\ \A x \in RowsOf(ratings, p) : x.timestamp <= e.timestamp
               /\ ratings' = ratings \ {e}
               /\ Cardinality(ratings') = Cardinality(ratings) - 1
               /\ ret' = <<e.image_id, e.rating>>
               /\ Elems(get_rated_images(ratings', p)) =
                     IF \E x \in RowsOf(ratings', p) : x.image_id = e.image_id
                     THEN Elems(get_rated_images(ratings, p))
                     ELSE Elems(get_rated_images(ratings, p)) \ {e.image_id}
               /\ \A q \in Users \ {p} : RowsOf(ratings', q) = RowsOf(ratings, q)
      ]_vars

\* an undo has just removed one of two events of a participant that shared the
\* maximal timestamp and the image: the other one is still in the table
C2_Witness ==
    /\ last.op = "undo_last_rating"
    /\ ret[1] \in Images
    /\ \E e \in last.removed, r \in ratings :
          /\ r.user_identifier = e.user_identifier
          /\ r.timestamp = e.timestamp
          /\ r.image_id = e.image_id
          /\ e.image_id \in Elems(get_rated_images(ratings, last.arg))

----------------------------------------------------------------------------
(* C3 *)

\* str.lower() on the characters of the model
Lower(s) == [k \in DOMAIN s |-> IF s[k] = "A" THEN "a" ELSE IF s[k] = "B" THEN "b" ELSE s[k]]

\* Python's `p in s`
IsSubstring(p, s) ==
    \E k \in 0..(Len(s) - Len(p)) : SubSeq(s, k + 1, k + Len(p)) = p

\* the dashboard's preview of the users a cleanup will delete
PreviewMatches(user_identifier, cleanup_pattern, exact_match) ==
    IF exact_match
    THEN user_identifier = cleanup_pattern
    ELSE IsSubstring(Lower(cleanup_pattern), Lower(user_identifier))

\* C3: cleanup_test_users(pattern, exact_match) deletes exactly the events whose
\* participant identifier equals pattern (exact_match) or contains pattern as a
\* case-insensitive substring (otherwise), leaves every other event unchanged
\* and returns (distinct participants deleted, rows deleted), (0, 0) when
\* nothing matches.
C3_CleanupDeletesSubstringMatches ==
    [][\A pattern \in Patterns, exact_match \in BOOLEAN :
         (last'.op = "cleanup_test_users" /\ CleanupTestUsers(pattern, exact_match)) =>
            /\ ratings' = {r \in ratings :
                             ~PreviewMatches(r.user_identifier, pattern, exact_match)}
            /\ ret' = <<Cardinality({r.user_identifier : r \in ratings \ ratings'}),
                        Cardinality(ratings \ ratings')>>
      ]_vars

----------------------------------------------------------------------------
(* The migration of a legacy table: init_db against a database whose       *)
(* ratings table was created with `rating INTEGER` on the 1-100 scale      *)

MaxLegacy == 2

\* 1, 75, 100, skip, flag
LegacyRatings == {100, 7500, 10000, SKIP, FLAG}

LegacyUser == <<"a", "b">>

LegacyRows(id) ==
    {Row(id, image_id, rating, LegacyUser, timestamp) :
        image_id \in Images, rating \in LegacyRatings, timestamp \in Times}

\* the legacy tables with rows 1..n
LegacyTables(n) ==
    {{f[id] : id \in 1..n} : f \in {g \in [1..n -> UNION {LegacyRows(id) : id \in 1..n}] :
                                        \A id \in 1..n : g[id].id = id}}

InitMigrate ==
    /\ schema = "INTEGER"
    /\ \E n \in 0..MaxLegacy :
          /\ ratings \in LegacyTables(n)
          /\ nextId = n + 1
    /\ ret = None
    /\ saved = {}
    /\ last = Call(None, None, {})
    /\ AppIdle

\* a Submit of the current application after the migration
SaveAfterMigration ==
    \E rating \in {750, 1000} : SaveRating("b.png", rating, LegacyUser, 2)

NextMigrate == InitDb \/ SaveAfterMigration

SpecMigrate == InitMigrate /\ [][NextMigrate]_vars

----------------------------------------------------------------------------
(* C4 *)

\* C4: init_db against a legacy table keeps exactly the same rows by id with
\* image_id, participant and timestamp unchanged; every positive legacy rating
\* r becomes r/10 to one decimal place (75 becomes 7.5) and the sentinels -1
\* and -2 are kept.
C4_MigrationRescalesPositiveRatings ==
    [][(last'.op = "init_db" /\ InitDb /\ schema = "INTEGER") =>
         /\ RowIds(ratings') = RowIds(ratings)
         /\ Cardinality(ratings') = Cardinality(ratings)
         /\ \A old \in ratings : \E new \in ratings' :
               /\ new.id = old.id
               /\ new.image_id = old.image_id
               /\ new.user_identifier = old.user_identifier
               /\ new.timestamp = old.timestamp
               /\ old.rating > 0 => 10 * new.rating = old.rating
               /\ old.rating = 7500 => new.rating = 750
               /\ old.rating \in {SKIP, FLAG} => new.rating = old.rating
      ]_vars

\* a migration has just run and left a 7.5 next to a sentinel
C4_Witness ==
    /\ last.op = "init_db"
    /\ last.arg = "INTEGER"
    /\ \E r1, r2 \in ratings : r1.rating = 750 /\ r2.rating \in {SKIP, FLAG}

----------------------------------------------------------------------------
(* C5 *)

\* C5: running init_db twice in sequence yields the same table as running it
\* once, and init_db on a table of the current schema rescales no rating.
C5_MigrationIsIdempotent ==
    /\ init_db(init_db(Database)) = init_db(Database)
    /\ schema = "REAL" => init_db(Database).rows = ratings

\* init_db has just run against a table of the current schema that holds a
\* legacy row (never saved by this program) already rescaled to 7.5
C5_Witness ==
    /\ last.op = "init_db"
    /\ last.arg = "REAL"
    /\ \E r \in ratings :
          /\ <<r.user_identifier, r.image_id>> \notin saved
          /\ r.rating = 750

----------------------------------------------------------------------------
(* The aggregation queries and the dashboard                               *)
(*                                                                         *)
(* A nullable number (SQL NULL / pandas NaN, or a rational) is a record    *)
(* [null, num, den]; a mean is kept as the exact fraction sum/count.       *)

Absent == [null |-> TRUE, num |-> 0, den |-> 1]

Value(num, den) == [null |-> FALSE, num |-> num, den |-> den]

\* a < b and a = b on non-null values
Less(a, b) == a.num * b.den < b.num * a.den

Same(a, b) == a.num * b.den = b.num * a.den

RowsOfImage(T, image_id) == {r \in T : r.image_id = image_id}

\* the rows CASE WHEN rating > 0 THEN ... END keeps
ValidRows(S) == {r \in S : r.rating > 0}

RECURSIVE SumRatings(_)
SumRatings(S) ==
    IF S = {} THEN 0
    ELSE LET r == CHOOSE x \in S : TRUE IN r.rating + SumRatings(S \ {r})

\* variant: COALESCE(AVG(...), 0)
SqlAvg_zero(S) == IF S = {} THEN Value(0, 1) ELSE Value(SumRatings(S), Cardinality(S))

\* AVG, MIN and MAX skip NULLs and are NULL over no value
SqlAvg(S) == IF S = {} THEN Absent ELSE Value(SumRatings(S), Cardinality(S))

SqlMin(S) ==
    IF S = {} THEN Absent
    ELSE Value((CHOOSE r \in S : \A x \in S : r.rating <= x.rating).rating, 1)

SqlMax(S) ==
    IF S = {} THEN Absent
    ELSE Value((CHOOSE r \in S : \A x \in S : r.rating >= x.rating).rating, 1)

\* the rows of the result (their order is read by no caller modelled here)
get_image_statistics(T) ==
    {[image_id |-> image_id,
      total_ratings |-> Cardinality(RowsOfImage(T, image_id)),
      valid_ratings |-> Cardinality(ValidRows(RowsOfImage(T, image_id))),
      skips |-> Cardinality({r \in RowsOfImage(T, image_id) : r.rating = SKIP}),
      flags |-> Cardinality({r \in RowsOfImage(T, image_id) : r.rating = FLAG}),
      avg_rating |-> SqlAvg(ValidRows(RowsOfImage(T, image_id))),
      min_rating |-> SqlMin(ValidRows(RowsOfImage(T, image_id))),
      max_rating |-> SqlMax(ValidRows(RowsOfImage(T, image_id)))] :
        image_id \in {r.image_id : r \in T}}

GetImageStatistics ==
    /\ schema = "REAL"
    /\ ret' = get_image_statistics(ratings)
    /\ last' = Call("get_image_statistics", None, {})
    /\ UNCHANGED <<schema, ratings, nextId, saved>>
    /\ UNCHANGED appVars

\* one row of either result of get_top_and_bottom_images
RankRow(T, image_id) ==
    [image_id |-> image_id,
     avg_rating |-> SqlAvg(ValidRows(RowsOfImage(T, image_id))),
     valid_ratings |-> Cardinality(ValidRows(RowsOfImage(T, image_id)))]

\* variant: HAVING COUNT(...) >= 1
Qualifying_one(T) ==
    {image_id \in {r.image_id : r \in T} :
        Cardinality(ValidRows(RowsOfImage(T, image_id))) >= 1}

\* WHERE rating > 0 GROUP BY image_id HAVING COUNT(CASE WHEN rating > 0 THEN 1 END) >= 2
Qualifying(T) ==
    {image_id \in {r.image_id : r \in T} :
        Cardinality(ValidRows(RowsOfImage(T, image_id))) >= 2}

\* LIMIT 3
RankLimit == 3

Smaller(a, b) == IF a < b THEN a ELSE b

\* ORDER BY avg_rating DESC|ASC LIMIT 3: the lists the statement may return.
\* SQLite leaves the order of rows with equal avg_rating undefined, so every
\* order of the groups that agrees with avg_rating is a possible result.
Ranked(T, descending) ==
    LET Q == Qualifying(T)
        n == Smaller(RankLimit, Cardinality(Q))
        avg(i) == SqlAvg(ValidRows(RowsOfImage(T, i)))
        Before(i, j) == IF descending THEN Less(avg(j), avg(i)) ELSE Less(avg(i), avg(j))
    IN  {[k \in 1..n |-> RankRow(T, f[k])] :
            f \in {g \in [1..n -> Q] :
                     /\ \A k, l \in 1..n : k < l => g[k] # g[l] /\ ~Before(g[l], g[k])
                     /\ \A k \in 1..n : \A i \in Q \ {g[l] : l \in 1..n} : ~Before(i, g[k])}}

GetTopAndBottomImages ==
    /\ schema = "REAL"
    /\ \E top_result \in Ranked(ratings, TRUE), bottom_result \in Ranked(ratings, FALSE) :
          ret' = [top |-> top_result, bottom |-> bottom_result]
    /\ last' = Call("get_top_and_bottom_images", None, {})
    /\ UNCHANGED <<schema, ratings, nextId, saved>>
    /\ UNCHANGED appVars

\* DataFrame.fillna(0) on one cell
Fillna0(x) == IF x.null THEN Value(0, 1) ELSE x

\* tab2 of dashboard_page: df_images with the controversy score
ImageTable(image_stats) ==
    {[image_id |-> r.image_id,
      total_ratings |-> r.total_ratings,
      valid_ratings |-> r.valid_ratings,
      skips |-> r.skips,
      flags |-> r.flags,
      avg_rating |-> Fillna0(r.avg_rating),
      min_rating |-> Fillna0(r.min_rating),
      max_rating |-> Fillna0(r.max_rating),
      controversy_score |->
          Value(Fillna0(r.max_rating).num - Fillna0(r.min_rating).num, 1)] :
        r \in image_stats}

\* a run of dashboard_page with the right password
DashboardPage(s) ==
    /\ schema = "REAL"
    /\ page' = [page EXCEPT ![s] =
                   IF ratings = {}
                   THEN Page("no_ratings", None, {}, {})
                   ELSE Page("dashboard", None, get_image_statistics(ratings),
                             ImageTable(get_image_statistics(ratings)))]
    /\ ret' = None
    /\ last' = Call("dashboard_page", None, {})
    /\ UNCHANGED <<schema, ratings, nextId, saved, catalog, session, calls>>

----------------------------------------------------------------------------
(* The queries over ledgers drawn from a family: image i holds the events  *)
(* of one of five profiles, dealt in non-decreasing order (the queries do  *)
(* not tell the images apart other than by their events)                   *)

NumAggImages == 6

AggImageNames == <<"img1", "img2", "img3", "img4", "img5", "img6", "img7", "img8">>

\* ratings 3.0 and 7.0; 5.0 twice; 8.0 and 9.0; 7.5 and a skip; a skip and a flag
Profiles == <<(<<300, 700>>), (<<500, 500>>), (<<800, 900>>), (<<750, SKIP>>), (<<SKIP, FLAG>>)>>

Raters == <<(<<"a", "b">>), (<<"A", "b">>)>>

AggTable(f) ==
    {Row(2 * (i - 1) + k, AggImageNames[i], Profiles[f[i]][k], Raters[k], k) :
        i \in 1..NumAggImages, k \in 1..2}

InitAgg ==
    /\ schema = "REAL"
    /\ \E f \in [1..NumAggImages -> 1..Len(Profiles)] :
          /\ \A i, j \in 1..NumAggImages : i < j => f[i] <= f[j]
          /\ ratings = AggTable(f)
    /\ nextId = 2 * NumAggImages + 1
    /\ ret = None
    /\ saved = {<<r.user_identifier, r.image_id>> : r \in ratings}
    /\ last = Call(None, None, {})
    /\ AppIdle

\* each query is applied to the drawn ledger: the queries change no table, so
\* a second query would start from the same ledger
Drawn == last.op = None

NextAgg ==
    \/ Drawn /\ GetImageStatistics
    \/ Drawn /\ GetTopAndBottomImages
    \/ Drawn /\ \E s \in Sessions : DashboardPage(s)

SpecAgg == InitAgg /\ [][NextAgg]_vars

----------------------------------------------------------------------------
(* The rating interface: one script run of app.py per browser event        *)

\* all_images: the image files of IMAGE_DIR (the sorted list, as a set)
all_images(cat) == cat

\* variant: the rated images are not removed from the candidates
unrated_images_all(cat, rated_images) == all_images(cat)

\* unrated_images = [img for img in all_images if img not in rated_images]
unrated_images(cat, rated_images) == all_images(cat) \ Elems(rated_images)

\* st.progress(len(rated_images) / len(all_images)) raises ZeroDivisionError
\* over no image and StreamlitAPIException for a value above 1.0; neither is
\* caught by the except clauses of show_rating_interface
ProgressRaises(cat, rated_images) ==
    \/ Cardinality(all_images(cat)) = 0
    \/ Length(rated_images) > Cardinality(all_images(cat))

\* variant: the held image is kept whenever there is one
KeepsCurrentImage_always(state, unrated) == state.current_image # None

\* `'current_image' in st.session_state and st.session_state.current_image in unrated_images`
KeepsCurrentImage(state, unrated) ==
    state.current_image # None /\ state.current_image \in unrated

\* show_rating_interface up to the buttons: the pages [kind, image] a run may
\* render from table T, catalog cat and session state `state`; random.choice
\* may return any unrated image.
show_rating_interface(T, cat, state) ==
    LET rated_images == get_rated_images(T, state.user_identifier)
        unrated == unrated_images(cat, rated_images)
    IN  IF ProgressRaises(cat, rated_images)
        THEN {Page("error", None, {}, {})}
        ELSE IF unrated = {}
        THEN {Page("exhausted", None, {}, {})}
        ELSE IF KeepsCurrentImage(state, unrated)
        THEN {Page("presenting", state.current_image, {}, {})}
        ELSE {Page("presenting", image, {}, {}) : image \in unrated}

\* st.session_state after a run that rendered page p
StateAfter(state, p) ==
    IF p.kind = "presenting" THEN [state EXCEPT !.current_image = p.image] ELSE state

\* the participants of the rating interface
AppUsers == {<<"a", "b">>, <<"A", "b">>}

\* the value a Submit reads from the slider
AppSlider == {750}

\* the readings of datetime.now() at the saves of the interface (no property
\* of the interface reads a timestamp)
AppTimes == {1}

\* a script run without a button: init_db, then the interface
Rerun(s, T, state, op) ==
    \E p \in show_rating_interface(T, catalog, state) :
        /\ page' = [page EXCEPT ![s] = p]
        /\ session' = [session EXCEPT ![s] = StateAfter(state, p)]
        /\ ratings' = T
        /\ schema' = init_db(Database).schema
        /\ last' = Call(op, s, {})
        /\ ret' = None

\* "Start Rating" with a name: the identifier is stored and the script reruns
StartRating(s, user_id) ==
    /\ session[s].user_identifier = None
    /\ Rerun(s, init_db(Database).rows,
             [session[s] EXCEPT !.user_identifier = user_id], "start_rating")
    /\ UNCHANGED <<nextId, saved, catalog, calls>>

\* a rerun of the interface with no button pressed (the slider was moved)
Render(s) ==
    /\ session[s].user_identifier # None
    /\ Rerun(s, init_db(Database).rows, session[s], "render")
    /\ UNCHANGED <<nextId, saved, catalog, calls>>

\* a click on Submit (the slider value), Skip (-1) or Flag (-2) on a page that
\* shows the buttons: the script runs again down to the button, which saves
\* the rating for the current_image of this run and reruns the script
Press(s, rating, op) ==
    /\ page[s].kind = "presenting"
    /\ nextId \in Ids
    /\ \E p \in show_rating_interface(init_db(Database).rows, catalog, session[s]),
          now \in AppTimes :
          IF p.kind = "presenting"
          THEN /\ Rerun(s, save_rating(init_db(Database).rows, nextId, p.image, rating,
                                       session[s].user_identifier, now),
                        StateAfter(session[s], p), op)
               /\ nextId' = nextId + 1
               /\ saved' = saved \cup {<<session[s].user_identifier, p.image>>}
          ELSE /\ page' = [page EXCEPT ![s] = p]
               /\ ratings' = init_db(Database).rows
               /\ schema' = init_db(Database).schema
               /\ last' = Call(op, s, {})
               /\ ret' = None
               /\ UNCHANGED <<session, nextId, saved>>
    /\ UNCHANGED <<catalog, calls>>

Submit(s) == \E rating \in AppSlider : Press(s, rating, "submit")

Skip(s) == Press(s, SKIP, "skip")

Flag(s) == Press(s, FLAG, "flag")

\* the admin's "Delete Test Users": offered for a non-empty pattern whose
\* preview lists at least one user
AdminCleanup(pattern, exact_match) ==
    /\ pattern # <<>>
    /\ \E r \in ratings : PreviewMatches(r.user_identifier, pattern, exact_match)
    /\ CleanupTestUsers(pattern, exact_match)

\* image files are added to or removed from IMAGE_DIR
CatalogChange ==
    /\ catalog' \in SUBSET Images
    /\ catalog' # catalog
    /\ last' = Call("catalog_change", None, {})
    /\ ret' = None
    /\ UNCHANGED <<schema, ratings, nextId, saved, session, page, calls>>

InitApp ==
    /\ schema = "none"
    /\ ratings = {}
    /\ nextId = 1
    /\ ret = None
    /\ saved = {}
    /\ last = Call(None, None, {})
    /\ catalog \in SUBSET Images
    /\ session = NoSession
    /\ page = NoPage
    /\ calls = <<>>

NextApp ==
    \/ \E s \in Sessions, user_id \in AppUsers : StartRating(s, user_id)
    \/ \E s \in Sessions : Render(s)
    \/ \E s \in Sessions : Submit(s)
    \/ \E s \in Sessions : Skip(s)
    \/ \E s \in Sessions : Flag(s)
    \/ \E pattern \in Patterns, exact_match \in BOOLEAN : AdminCleanup(pattern, exact_match)
    \/ CatalogChange

SpecApp == InitApp /\ [][NextApp]_vars

----------------------------------------------------------------------------
(* get_user_statistics and the user analytics of the dashboard             *)

RowsOfUser(T, user_identifier) == {r \in T : r.user_identifier = user_identifier}

\* the rows of the result (ORDER BY total_submissions DESC orders them; the
\* analytics below do not read the order)
get_user_statistics(T) ==
    {[user_identifier |-> u,
      total_submissions |-> Cardinality(RowsOfUser(T, u)),
      valid_ratings |-> Cardinality(ValidRows(RowsOfUser(T, u))),
      skips |-> Cardinality({r \in RowsOfUser(T, u) : r.rating = SKIP}),
      flags |-> Cardinality({r \in RowsOfUser(T, u) : r.rating = FLAG}),
      avg_rating |-> SqlAvg(ValidRows(RowsOfUser(T, u))),
      first_rating |-> CHOOSE t \in {r.timestamp : r \in RowsOfUser(T, u)} :
                          \A r \in RowsOfUser(T, u) : t <= r.timestamp,
      last_rating |-> CHOOSE t \in {r.timestamp : r \in RowsOfUser(T, u)} :
                          \A r \in RowsOfUser(T, u) : t >= r.timestamp] :
        u \in {r.user_identifier : r \in T}}

GetUserStatistics ==
    /\ schema = "REAL"
    /\ ret' = get_user_statistics(ratings)
    /\ last' = Call("get_user_statistics", None, {})
    /\ UNCHANGED <<schema, ratings, nextId, saved>>
    /\ UNCHANGED appVars

\* df_users = pd.DataFrame(user_stats).fillna(0)
UserTable(user_stats) ==
    {[r EXCEPT !.avg_rating = Fillna0(r.avg_rating)] : r \in user_stats}

\* df_users['avg_rating'].max() and .min()
ColumnMax(df_users) ==
    (CHOOSE r \in df_users : \A x \in df_users : ~Less(r.avg_rating, x.avg_rating)).avg_rating

ColumnMin(df_users) ==
    (CHOOSE r \in df_users : \A x \in df_users : ~Less(x.avg_rating, r.avg_rating)).avg_rating

\* the rows of df_users the three conditions select
suspicious_users(df_users) ==
    {r \in df_users :
        \/ Same(r.avg_rating, ColumnMax(df_users))
        \/ Same(r.avg_rating, ColumnMin(df_users))
        \/ 2 * r.flags > r.total_submissions}

\* tab4 of dashboard_page: the tables it shows, or nothing without statistics
UserAnalytics ==
    /\ schema = "REAL"
    /\ ret' = IF get_user_statistics(ratings) = {}
              THEN None
              ELSE [df_users |-> UserTable(get_user_statistics(ratings)),
                    suspicious_users |->
                        suspicious_users(UserTable(get_user_statistics(ratings)))]
    /\ last' = Call("dashboard_page", None, {})
    /\ UNCHANGED <<schema, ratings, nextId, saved>>
    /\ UNCHANGED appVars

\* ledgers drawn from a family: each of NumParticipants participants holds
\* the events of one history, each event on an image of its own
NumParticipants == 3

ParticipantNames == <<(<<"a", "b">>), (<<"A", "b">>), (<<"_">>), (<<"x">>), (<<"y">>)>>

\* no event; 3.0; 7.0; 3.0 and 7.0; a skip; a flag; a flag and 7.0;
\* two flags and 7.0; 10.0
Histories ==
    <<(<<>>), (<<300>>), (<<700>>), (<<300, 700>>), (<<SKIP>>), (<<FLAG>>),
      (<<FLAG, 700>>), (<<FLAG, FLAG, 700>>), (<<1000>>)>>

\* the ledger in which participant i holds history f[i]
UserLedger(f) ==
    UNION {{Row(Len(Histories) * (i - 1) + k, AggImageNames[k], Histories[f[i]][k],
                ParticipantNames[i], k) :
               k \in 1..Len(Histories[f[i]])} :
           i \in 1..NumParticipants}

InitUsers ==
    /\ schema = "REAL"
    /\ \E f \in [1..NumParticipants -> 1..Len(Histories)] : ratings = UserLedger(f)
    /\ nextId = Len(Histories) * NumParticipants + 1
    /\ ret = None
    /\ saved = {<<r.user_identifier, r.image_id>> : r \in ratings}
    /\ last = Call(None, None, {})
    /\ AppIdle

NextUsers ==
    \/ Drawn /\ GetUserStatistics
    \/ Drawn /\ UserAnalytics

SpecUsers == InitUsers /\ [][NextUsers]_vars

----------------------------------------------------------------------------
(* One participant in one session who keeps acting, over a fixed catalog   *)

Rater == "s1"

InitLive == InitApp /\ catalog # {}

Act == Submit(Rater) \/ Skip(Rater) \/ Flag(Rater)

NextLive ==
    \/ \E user_id \in AppUsers : StartRating(Rater, user_id)
    \/ Render(Rater)
    \/ Submit(Rater)
    \/ Skip(Rater)
    \/ Flag(Rater)

\* the participant starts, and acts on the presented image whenever the
\* page keeps showing the buttons
SpecLive ==
    /\ InitLive
    /\ [][NextLive]_vars
    /\ WF_vars(\E user_id \in AppUsers : StartRating(Rater, user_id))
    /\ WF_vars(Act)

----------------------------------------------------------------------------
(* The rating interface next to all ledger operations                      *)

\* undo_last_rating called for a participant of the interface (the function
\* is part of database.py; app.py has no control that calls it)
UndoByParticipant == \E user_identifier \in AppUsers : UndoLastRating(user_identifier)

\* the admin's "Delete Test Users" with the name of a participant
CleanupByName ==
    \E pattern \in AppUsers, exact_match \in BOOLEAN : AdminCleanup(pattern, exact_match)

NextTerminal ==
    \/ \E s \in Sessions, user_id \in AppUsers : StartRating(s, user_id)
    \/ \E s \in Sessions : Render(s)
    \/ \E s \in Sessions : Submit(s)
    \/ CleanupByName
    \/ UndoByParticipant
    \/ CatalogChange

SpecTerminal == InitApp /\ [][NextTerminal]_vars

----------------------------------------------------------------------------
(* The rating interface over a directory whose files come and go           *)

\* the image files IMAGE_DIR may hold over time
Files == Images \cup {"c.png"}

\* image files are added to or removed from IMAGE_DIR
FilesChange ==
    /\ catalog' \in SUBSET Files
    /\ catalog' # catalog
    /\ last' = Call("catalog_change", None, {})
    /\ ret' = None
    /\ UNCHANGED <<schema, ratings, nextId, saved, session, page, calls>>

InitFiles ==
    /\ schema = "none"
    /\ ratings = {}
    /\ nextId = 1
    /\ ret = None
    /\ saved = {}
    /\ last = Call(None, None, {})
    /\ catalog \in SUBSET Files
    /\ session = NoSession
    /\ page = NoPage
    /\ calls = <<>>

NextFiles ==
    \/ \E s \in Sessions, user_id \in AppUsers : StartRating(s, user_id)
    \/ \E s \in Sessions : Render(s)
    \/ \E s \in Sessions : Submit(s)
    \/ \E s \in Sessions : Skip(s)
    \/ \E s \in Sessions : Flag(s)
    \/ FilesChange

SpecFiles == InitFiles /\ [][NextFiles]_vars

----------------------------------------------------------------------------
(* The ledger under concurrent callers                                     *)
(*                                                                         *)
(* Every Streamlit session runs its script in a thread of its own and      *)
(* every database function opens a session of its own on the shared        *)
(* engine.  Each SQL statement is atomic.  A SELECT opens no transaction   *)
(* (the sqlite3 driver begins one only before INSERT/UPDATE/DELETE), so    *)
(* statements of other callers may run between the SELECT and the DELETE   *)
(* of undo_last_rating and of cleanup_test_users.                          *)

Callers == {"c1", "c2"}

MaxConcRows == 2

ConcRows(id) ==
    {Row(id, image_id, 750, user_identifier, timestamp) :
        image_id \in Images, user_identifier \in AppUsers, timestamp \in Times}

\* the tables with rows 1..n the callers may start from
ConcTables(n) ==
    {{f[id] : id \in 1..n} : f \in {g \in [1..n -> UNION {ConcRows(id) : id \in 1..n}] :
                                        \A id \in 1..n : g[id].id = id}}

Args(image_id, rating, user_identifier, now, pattern, exact_match) ==
    [image_id |-> image_id, rating |-> rating, user_identifier |-> user_identifier,
     now |-> now, pattern |-> pattern, exact_match |-> exact_match]

\* the calls a caller may make
ConcCalls ==
    {[op |-> "save_rating", arg |-> Args(image_id, 750, user_identifier, 2, <<>>, FALSE)] :
        image_id \in Images, user_identifier \in AppUsers}
    \cup {[op |-> "undo_last_rating", arg |-> Args(None, 0, user_identifier, 0, <<>>, FALSE)] :
        user_identifier \in AppUsers}
    \cup {[op |-> "cleanup_test_users", arg |-> Args(None, 0, <<>>, 0, pattern, exact_match)] :
        pattern \in {<<"B">>, <<"A", "b">>}, exact_match \in BOOLEAN}

\* a call of caller c: its position pc, the rows or users its SELECT fetched,
\* its returned value, the uuid4() it draws, and as history the table the
\* callers started from
CallState(call, pc, fetched, result, id, start) ==
    [op |-> call.op, arg |-> call.arg, pc |-> pc, fetched |-> fetched,
     result |-> result, id |-> id, start |-> start]

Step(c, pc, fetched, result) ==
    calls' = [calls EXCEPT ![c] = CallState(calls[c], pc, fetched, result,
                                            calls[c].id, calls[c].start)]

ConcFrame(c, op) ==
    /\ last' = Call(op, c, {})
    /\ ret' = None
    /\ UNCHANGED <<schema, nextId, catalog, session, page>>

\* save_rating: one INSERT
ConcSave(c) ==
    /\ calls[c].op = "save_rating"
    /\ calls[c].pc = "called"
    /\ ratings' = save_rating(ratings, calls[c].id, calls[c].arg.image_id, calls[c].arg.rating,
                              calls[c].arg.user_identifier, calls[c].arg.now)
    /\ saved' = saved \cup {<<calls[c].arg.user_identifier, calls[c].arg.image_id>>}
    /\ Step(c, "returned", {}, <<None, None>>)
    /\ ConcFrame(c, "save_rating")

\* undo_last_rating: the SELECT ... LIMIT 1 and `if last_rating:`
UndoSelect(c) ==
    /\ calls[c].op = "undo_last_rating"
    /\ calls[c].pc = "called"
    /\ IF LastRatings(ratings, calls[c].arg.user_identifier) # {}
       THEN \E last_rating \in LastRatings(ratings, calls[c].arg.user_identifier) :
               Step(c, "selected", {last_rating}, <<None, None>>)
       ELSE Step(c, "returned", {}, <<None, None>>)
    /\ UNCHANGED <<ratings, saved>>
    /\ ConcFrame(c, "undo_last_rating")

\* undo_last_rating: the DELETE by id, the commit and the return
UndoDelete(c) ==
    /\ calls[c].op = "undo_last_rating"
    /\ calls[c].pc = "selected"
    /\ \E last_rating \in calls[c].fetched :
          /\ ratings' = DeleteById(ratings, last_rating.id)
          /\ Step(c, "returned", calls[c].fetched, <<last_rating.image_id, last_rating.rating>>)
    /\ UNCHANGED saved
    /\ ConcFrame(c, "undo_last_rating")

\* cleanup_test_users: the SELECT DISTINCT and `if users_to_delete:`
CleanupSelect(c) ==
    /\ calls[c].op = "cleanup_test_users"
    /\ calls[c].pc = "called"
    /\ IF users_to_delete(ratings, calls[c].arg.pattern, calls[c].arg.exact_match) # {}
       THEN Step(c, "selected",
                 users_to_delete(ratings, calls[c].arg.pattern, calls[c].arg.exact_match),
                 <<0, 0>>)
       ELSE Step(c, "returned", {}, <<0, 0>>)
    /\ UNCHANGED <<ratings, saved>>
    /\ ConcFrame(c, "cleanup_test_users")

\* cleanup_test_users: the DELETE, the commit and the return of
\* len(users_to_delete), result.rowcount
CleanupCommit(c) ==
    /\ calls[c].op = "cleanup_test_users"
    /\ calls[c].pc = "selected"
    /\ ratings' = CleanupDelete(ratings, calls[c].arg.pattern, calls[c].arg.exact_match)
    /\ Step(c, "returned", calls[c].fetched,
            <<Cardinality(calls[c].fetched), Cardinality(ratings) - Cardinality(ratings')>>)
    /\ UNCHANGED saved
    /\ ConcFrame(c, "cleanup_test_users")

InitConc ==
    /\ schema = "REAL"
    /\ \E n \in 0..MaxConcRows :
          /\ ratings \in ConcTables(n)
          /\ nextId = n + 3
          /\ \E call1, call2 \in ConcCalls :
                calls = [c \in Callers |->
                           IF c = "c1"
                           THEN CallState(call1, "called", {}, <<None, None>>, n + 1, ratings)
                           ELSE CallState(call2, "called", {}, <<None, None>>, n + 2, ratings)]
    /\ ret = None
    /\ saved = {<<r.user_identifier, r.image_id>> : r \in ratings}
    /\ last = Call(None, None, {})
    /\ catalog = {}
    /\ session = NoSession
    /\ page = NoPage

NextConc ==
    \E c \in Callers :
        \/ ConcSave(c)
        \/ UndoSelect(c)
        \/ UndoDelete(c)
        \/ CleanupSelect(c)
        \/ CleanupCommit(c)

SpecConc == InitConc /\ [][NextConc]_vars

----------------------------------------------------------------------------
(* C6 *)

ValidCount(image_id) ==
    Cardinality({r \in ratings : r.image_id = image_id /\ r.rating > 0})

MeanOf(image_id) == SqlAvg({r \in ratings : r.image_id = image_id /\ r.rating > 0})

TwiceRated == {image_id \in {r.image_id : r \in ratings} : ValidCount(image_id) >= 2}

ListImages(list) == {list[k].image_id : k \in DOMAIN list}

\* fewer than three twice-rated images have a strictly higher mean than the
\* image and fewer than three a strictly lower one
InTheMiddleTie(image_id) ==
    /\ Cardinality({i \in TwiceRated : Less(MeanOf(image_id), MeanOf(i))}) < 3
    /\ Cardinality({i \in TwiceRated : Less(MeanOf(i), MeanOf(image_id))}) < 3

TopBottomSizesAndValidity ==
    /\ Len(ret.top) <= 3
    /\ Len(ret.bottom) <= 3
    /\ \A i \in ListImages(ret.top) \cup ListImages(ret.bottom) : ValidCount(i) >= 2

----------------------------------------------------------------------------
(* C7 *)

\* the images that have events but no valid event
NeverValid == {image_id \in {r.image_id : r \in ratings} : ValidCount(image_id) = 0}

IsAbsent(x) == x.null

IsZero(x) == ~x.null /\ x.num = 0

StatsAbsent(image_stats) ==
    \A r \in image_stats :
        r.image_id \in NeverValid =>
            IsAbsent(r.avg_rating) /\ IsAbsent(r.min_rating) /\ IsAbsent(r.max_rating)

\* C7 as claimed: for an image with events but no valid event, mean, minimum
\* and maximum are absent, never zero, in the result of get_image_statistics
\* and in the image statistics of the dashboard.
C7_NoValidRatingMeansAbsent ==
    /\ last.op = "get_image_statistics" => StatsAbsent(ret)
    /\ \A s \in Sessions :
          page[s].kind = "dashboard" =>
              /\ StatsAbsent(page[s].image_stats)
              /\ \A r \in page[s].df_images :
                    r.image_id \in NeverValid =>
                        ~IsZero(r.avg_rating) /\ ~IsZero(r.min_rating) /\ ~IsZero(r.max_rating)

\* C7 as amended: they are absent in the result of get_image_statistics (also
\* as the dashboard receives it), and the table the dashboard derives from it
\* shows them as 0.
C7_AbsentInStatisticsZeroInDashboard ==
    /\ last.op = "get_image_statistics" =>
          /\ StatsAbsent(ret)
          /\ {r.image_id : r \in ret} = {r.image_id : r \in ratings}
    /\ \A s \in Sessions :
          page[s].kind = "dashboard" =>
              /\ StatsAbsent(page[s].image_stats)
              /\ {r.image_id : r \in page[s].df_images} = {r.image_id : r \in ratings}
              /\ \A r \in page[s].df_images :
                    r.image_id \in NeverValid =>
                        IsZero(r.avg_rating) /\ IsZero(r.min_rating) /\ IsZero(r.max_rating)

\* the dashboard has rendered the statistics of a ledger in which one image
\* has only skips and flags and another has valid ratings
C7_Witness ==
    \E s \in Sessions :
        /\ page[s].kind = "dashboard"
        /\ \E r1, r2 \in page[s].image_stats :
              /\ r1.image_id \in NeverValid
              /\ r1.skips + r1.flags = r1.total_ratings
              /\ r2.valid_ratings >= 2

----------------------------------------------------------------------------
(* C8 *)

RunOps == {"start_rating", "render", "submit", "skip", "flag"}

\* the images of the catalog without an event of the participant of session s
UnratedOf(s) ==
    catalog \ {r.image_id : r \in {x \in ratings : x.user_identifier = session[s].user_identifier}}

\* C8: for every catalog, the empty one included, and every participant the
\* rating interface reports exhausted exactly when the catalog minus the
\* participant's rated set is empty, and otherwise presents an image of the
\* catalog without an event of the participant.
C8_ExhaustedIffNothingUnrated ==
    \A s \in Sessions :
        (last.op \in RunOps /\ last.arg = s) =>
            /\ page[s].kind = "exhausted" <=> UnratedOf(s) = {}
            /\ UnratedOf(s) # {} =>
                  page[s].kind = "presenting" /\ page[s].image \in UnratedOf(s)

----------------------------------------------------------------------------
(* C9 *)

PressRating(op) == IF op = "submit" THEN 750 ELSE IF op = "skip" THEN SKIP ELSE FLAG

\* C9: each Submit, Skip or Flag action creates exactly one new event (fresh
\* id, the presented image, the participant, the slider value or -1 or -2)
\* and leaves the existing events unchanged; no operation changes a field of
\* an existing event; an event leaves the ledger only through
\* undo_last_rating or cleanup_test_users.
C9_OneEventPerAction ==
    [][/\ \A s \in Sessions :
            (last'.op \in {"submit", "skip", "flag"} /\ last'.arg = s) =>
                \E e \in ratings' :
                    /\ ratings' = ratings \cup {e}
                    /\ e.id \notin RowIds(ratings)
                    /\ e.image_id = page[s].image
                    /\ e.user_identifier = session[s].user_identifier
                    /\ e.rating = PressRating(last'.op)
       /\ \A e \in ratings : e.id \in RowIds(ratings') => e \in ratings'
       /\ ratings \ ratings' # {} => last'.op \in {"undo_last_rating", "cleanup_test_users"}
      ]_vars

----------------------------------------------------------------------------
(* C10 *)

Outcome(table, result) == [table |-> table, result |-> result]

\* the outcomes of a call that runs alone on table T
Alone(call, T) ==
    IF call.op = "save_rating"
    THEN {Outcome(save_rating(T, call.id, call.arg.image_id, call.arg.rating,
                              call.arg.user_identifier, call.arg.now), <<None, None>>)}
    ELSE IF call.op = "undo_last_rating"
    THEN IF LastRatings(T, call.arg.user_identifier) = {}
         THEN {Outcome(T, <<None, None>>)}
         ELSE {Outcome(DeleteById(T, r.id), <<r.image_id, r.rating>>) :
                  r \in LastRatings(T, call.arg.user_identifier)}
    ELSE IF users_to_delete(T, call.arg.pattern, call.arg.exact_match) = {}
         THEN {Outcome(T, <<0, 0>>)}
         ELSE {Outcome(CleanupDelete(T, call.arg.pattern, call.arg.exact_match),
                       <<Cardinality(users_to_delete(T, call.arg.pattern, call.arg.exact_match)),
                         Cardinality(T) - Cardinality(CleanupDelete(T, call.arg.pattern,
                                                                    call.arg.exact_match))>>)}

\* the result of a call is the result of outcome o (an undo that found no row
\* returns (None, None), which is compared by its first component)
ReturnedAs(call, o) ==
    /\ call.result[1] = o.result[1]
    /\ (call.op = "undo_last_rating" /\ call.result[1] = None) \/ call.result[2] = o.result[2]

\* C10: under any interleaving of concurrent callers each save_rating,
\* undo_last_rating and cleanup_test_users call takes effect atomically: the
\* final ledger and the returned results are those of some serial order of
\* the calls.
C10_CallsAreSerializable ==
    (\A c \in Callers : calls[c].pc = "returned") =>
        \E c, d \in Callers :
            /\ c # d
            /\ \E o1 \in Alone(calls[c], calls[c].start) :
                  /\ ReturnedAs(calls[c], o1)
                  /\ \E o2 \in Alone(calls[d], o1.table) :
                        /\ ReturnedAs(calls[d], o2)
                        /\ o2.table = ratings

----------------------------------------------------------------------------
(* C11 *)

\* C11: within one session the presented image is held across re-renders:
\* when the interface is rendered again with no Submit, Skip or Flag in
\* between and the presented image is still in the participant's unrated set,
\* the same image is presented; a run presents another image than the held
\* one only when none is held or the held one has left the unrated set.
C11_HeldImageIsStable ==
    [][\A s \in Sessions :
          /\ (/\ last'.op = "render"
              /\ last'.arg = s
              /\ page[s].kind = "presenting"
              /\ page[s].image \in UnratedOf(s)')
             => (page'[s].kind = "presenting" /\ page'[s].image = page[s].image)
          /\ (/\ last'.op \in RunOps
              /\ last'.arg = s
              /\ page'[s].kind = "presenting"
              /\ page'[s].image # session[s].current_image)
             => (session[s].current_image = None
                 \/ session[s].current_image \notin UnratedOf(s)')
      ]_vars

----------------------------------------------------------------------------
(* C12 *)

\* a render for participant u reports exhausted
ExhaustedFor(u) ==
    show_rating_interface(init_db(Database).rows, catalog,
                          [user_identifier |-> u, current_image |-> None])
        = {Page("exhausted", None, {}, {})}

\* every run of the interface reports exhausted exactly when ExhaustedFor
\* holds of its participant
ReportsExhaustedFor ==
    \A s \in Sessions :
        (last.op \in RunOps /\ last.arg = s) =>
            (page[s].kind = "exhausted" <=> ExhaustedFor(session[s].user_identifier))

----------------------------------------------------------------------------
(* C13 *)

\* no participant identifier is in use by two sessions
OneSessionPerParticipant ==
    \A s, t \in Sessions :
        (s # t /\ session[s].user_identifier # None)
            => session[s].user_identifier # session[t].user_identifier

\* C13: when events are created only by Submit, Skip and Flag of the rating
\* interface and every participant identifier is used by one session, the
\* ledger holds at most one event per (participant, image) pair.
C13_OneEventPerParticipantAndImage ==
    OneSessionPerParticipant =>
        \A r1, r2 \in ratings :
            (r1.user_identifier = r2.user_identifier /\ r1.image_id = r2.image_id)
                => r1 = r2

\* two participants, each in a session of their own; one of them has acted on
\* every image of a catalog of two and is shown the exhausted page
C13_Witness ==
    /\ OneSessionPerParticipant
    /\ \A s \in Sessions : session[s].user_identifier # None
    /\ \E s \in Sessions :
          /\ Cardinality(RowsOf(ratings, session[s].user_identifier)) = 2
          /\ page[s].kind = "exhausted"

----------------------------------------------------------------------------
(* C14 *)

\* the participants of the ledger and their mean valid rating
Participants == {r.user_identifier : r \in ratings}

UserMean(u) == SqlAvg(ValidRows(RowsOfUser(ratings, u)))

WithMean == {u \in Participants : ~UserMean(u).null}

FlagsMoreThanHalf(u) ==
    2 * Cardinality({r \in RowsOfUser(ratings, u) : r.rating = FLAG})
        > Cardinality(RowsOfUser(ratings, u))

\* the mean of u is the maximum or the minimum of the means that exist
ExtremeMean(u) ==
    /\ u \in WithMean
    /\ \/ \A v \in WithMean : ~Less(UserMean(u), UserMean(v))
       \/ \A v \in WithMean : ~Less(UserMean(v), UserMean(u))

Listed == {r.user_identifier : r \in ret.suspicious_users}

\* the analytics were shown (they are not for a ledger without events)
AnalyticsShown == last.op = "dashboard_page" /\ ratings # {}

\* C14: a participant is listed as suspicious exactly when their mean valid
\* rating equals the maximum or the minimum of the mean valid ratings over
\* all participants, or their flags are more than half of their submissions;
\* the mean of a participant without valid rating is absent and takes no
\* part in the maximum or minimum.
C14_SuspiciousUsers ==
    AnalyticsShown =>
        \A u \in Participants :
            u \in Listed <=> (ExtremeMean(u) \/ FlagsMoreThanHalf(u))

----------------------------------------------------------------------------
(* C15 *)

\* C15: with a fixed non-empty catalog, no undo or cleanup and one session,
\* a participant who keeps acting on each presented image eventually reaches
\* exhausted: every action removes exactly the acted-on image from the
\* participant's unrated set, and exhausted is reached after as many actions
\* as there were unrated images at the start (the whole catalog).
C15_EventuallyExhausted ==
    /\ [][(last'.op \in {"submit", "skip", "flag"} /\ last'.arg = Rater) =>
            /\ page[Rater].image \in UnratedOf(Rater)
            /\ UnratedOf(Rater)' = UnratedOf(Rater) \ {page[Rater].image}
            /\ nextId' = nextId + 1
         ]_vars
    /\ [](page[Rater].kind = "exhausted" => nextId - 1 = Cardinality(catalog))
    /\ <>(page[Rater].kind = "exhausted")

\* the participant is exhausted after acting on both images of a catalog of two
C15_Witness ==
    /\ page[Rater].kind = "exhausted"
    /\ Cardinality(catalog) = 2
    /\ Cardinality(RowsOf(ratings, session[Rater].user_identifier)) = 2

====
